---- MODULE Spec2Model ----
(***************************************************************************)
(* The marketing-asset generator page (GeneratorPage.js) with its output   *)
(* configuration panel (OutputConfigPanel): the upload session, the        *)
(* OutputSpec registry and the generation job lifecycle (submit, poll on   *)
(* an interval, timeout). React state is the hook state of the page; each  *)
(* action is one event handler, timer callback or the continuation of an   *)
(* async handler after an await. A handler that awaits a network call is   *)
(* split at the await: the request is "in flight" until a response action  *)
(* runs the continuation with the values the closure captured.             *)
(***************************************************************************)
EXTENDS Integers, Sequences, FiniteSets, TLC

\* ------------------------------------------------------------------ bounds
MaxRuns == 3        \* runs the model has room for
PageRuns == 2       \* runs followed by Spec
CtlRuns == 1        \* runs followed by SpecCtl
TimedRuns == 2      \* runs followed by SpecTimed
MaxInFlight == 2    \* status queries of one run awaiting their response
MaxUploads == 1     \* accepted file selections
SessionUploads == 2 \* accepted file selections followed by SpecUpload
MaxEdits == 4       \* panel operations followed by SpecRegistry
MaxClock == 1       \* milliseconds that pass while the panel is edited
MaxDownloads == 3   \* clicks on Download All

\* ------------------------------------------------------- program constants
POLL_INTERVAL_MS == 3000
TIMEOUT_MS == 300000
STAGGER_MS == 100
TicksPerRun == TIMEOUT_MS \div POLL_INTERVAL_MS

\* -------------------------------------------------------------- vocabulary
NoJob == 0                       \* jobId === null
NoFile == "none"                 \* uploadedImage / previewUrl === null
Files == {"a.jpg", "b.png", "notes.txt"}
\* file.type, split at its '/': <<type, subtype>>
FileType(f) == IF f = "a.jpg" THEN <<"image", "jpeg">>
               ELSE IF f = "b.png" THEN <<"image", "png">> ELSE <<"text", "plain">>

\* file.type.startsWith('image/')
IsImage(f) == FileType(f)[1] = "image"

NoDetail == ""                   \* an error response without a detail / error field
Details == {NoDetail, "server detail"}

Runs == 1..MaxRuns

\* a toast: its level, its text and, where the text embeds a count, the count
ToastError(m) == [level |-> "error", msg |-> m, n |-> 0]
ToastSuccess(m) == [level |-> "success", msg |-> m, n |-> 0]

\* a || b on strings: the empty (or missing) string is falsy
OrElse(a, b) == IF a = NoDetail THEN b ELSE a

VARIABLES
  mounted,          \* the GeneratorPage component is on screen
  jobId,            \* useState(null): job id of the upload session
  uploadedImage,    \* useState(null): the uploaded file
  previewUrl,       \* useState(null): data URI of the preview (named by its file)
  isUploading,      \* useState(false)
  uploads,          \* upload requests in flight: [n, file]
  readers,          \* FileReaders whose onload has not run yet: [n, file]
  nUploads,         \* accepted file selections so far
  selected,         \* the most recent accepted selection, and whether an upload has failed
  outputs,          \* useState([...]): the OutputSpec registry
  globalSettings,   \* useState({...})
  now,              \* Date.now(), in milliseconds since the page was opened
  nEdits,           \* panel operations counted by the registry specification
  isGenerating,     \* useState(false)
  generatedAssets,  \* useState([]): the Asset Result Store
  runs,             \* per handleGenerate invocation that passed the checks: its closure
  nRuns,            \* such invocations so far
  elapsed,          \* per run: interval periods elapsed since its timers were armed
  downloads,        \* handleDownloadAll: its calls, their pending timers, the saves made
  notif,            \* toasts raised by the last step
  lastEvent         \* what the last step was (observation only)

vars == <<mounted, jobId, uploadedImage, previewUrl, isUploading, uploads, readers,
          nUploads, selected, outputs, globalSettings, now, nEdits, isGenerating,
          generatedAssets, runs, nRuns, elapsed, downloads, notif, lastEvent>>

uploadVars == <<jobId, uploadedImage, previewUrl, isUploading, uploads, readers, nUploads,
                selected>>
panelVars == <<now, nEdits>>
genVars == <<isGenerating, generatedAssets, runs, nRuns>>

\* ---------------------------------------------------------------- registry
InitialOutputs ==
  << [id |-> "poster", type |-> "poster", enabled |-> TRUE, language |-> "English",
      width |-> 1080, height |-> 1350, formats |-> <<"png", "jpeg", "pdf">>,
      generatePrint |-> TRUE] >>

InitialSettings ==
  [auto_alt_text |-> TRUE, contrast_check |-> TRUE, brand_guidelines |-> FALSE]

\* outputs.map(o => o.id === id ? {...o, [field]: value} : o)
updateOutput(id, field, value) ==
  [i \in 1..Len(outputs) |->
     IF outputs[i].id = id THEN [outputs[i] EXCEPT ![field] = value] ELSE outputs[i]]

Event(op, run, ev) == [op |-> op, run |-> run, ev |-> ev]

\* the enabled checkbox of an output: updateOutput(output.id, 'enabled', checked)
SetEnabled ==
  /\ mounted
  /\ \E i \in 1..Len(outputs) :
       outputs' = updateOutput(outputs[i].id, "enabled", ~outputs[i].enabled)
  /\ notif' = <<>>
  /\ lastEvent' = Event("updateOutput", 0, "none")
  /\ UNCHANGED <<mounted, uploadVars, globalSettings, panelVars, downloads, genVars,
                 elapsed>>

\* ------------------------------------------------------------------- panel
OUTPUT_TYPES ==
  << [id |-> "poster", defaultWidth |-> 1080, defaultHeight |-> 1350],
     [id |-> "banner", defaultWidth |-> 1920, defaultHeight |-> 600],
     [id |-> "ad", defaultWidth |-> 1200, defaultHeight |-> 628],
     [id |-> "social_post", defaultWidth |-> 1080, defaultHeight |-> 1080],
     [id |-> "brochure", defaultWidth |-> 816, defaultHeight |-> 1056] >>

FORMATS == <<"png", "jpeg", "pdf", "svg">>

\* the output types picked in the Add Output select
AddTypes == {"poster", "banner"}

\* what is typed into a width or height input, character by character
InputTexts == {<<>>, <<"0">>, <<"-", "5">>, <<"6", "4">>}

\* OUTPUT_TYPES.find((t) => t.id === type)
OutputTypeOf(type) ==
  OUTPUT_TYPES[CHOOSE i \in 1..Len(OUTPUT_TYPES) : OUTPUT_TYPES[i].id = type]

\* `${type}_${Date.now()}`
NewId(type) == type \o "_" \o ToString(now)

\* addOutput(type): setOutputs([...outputs, newOutput])
addOutput(type) ==
  Append(outputs,
         [id |-> NewId(type), type |-> type, enabled |-> TRUE, language |-> "English",
          width |-> OutputTypeOf(type).defaultWidth,
          height |-> OutputTypeOf(type).defaultHeight,
          formats |-> <<"png", "jpeg", "pdf">>,
          generatePrint |-> (type = "poster")])

\* formats.includes(format)
Includes(formats, format) == \E i \in 1..Len(formats) : formats[i] = format

\* mutant: a format that is present is added once more
FlipFormat_AlwaysAdds(formats, format) == Append(formats, format)

\* includes(format) ? formats.filter((f) => f !== format) : [...formats, format]
FlipFormat(formats, format) ==
  IF Includes(formats, format)
    THEN SelectSeq(formats, LAMBDA f : f # format)
    ELSE Append(formats, format)

\* toggleFormat(outputId, format) on the registry outs
toggleFormatOn(outs, outputId, format) ==
  [i \in 1..Len(outs) |->
     IF outs[i].id = outputId
       THEN [outs[i] EXCEPT !.formats = FlipFormat(@, format)]
       ELSE outs[i]]

toggleFormat(outputId, format) == toggleFormatOn(outputs, outputId, format)

\* removeOutput(id): outputs.filter((output) => output.id !== id)
removeOutput(id) == SelectSeq(outputs, LAMBDA o : o.id # id)

\* parseInt on the text of a number input: an optional sign, then digits up to the
\* first character that is not one; NaN when there is no digit
DigitChars == <<"0", "1", "2", "3", "4", "5", "6", "7", "8", "9">>
IsDigit(c) == \E i \in 1..10 : DigitChars[i] = c
DigitValue(c) == (CHOOSE i \in 1..10 : DigitChars[i] = c) - 1
NaN == [nan |-> TRUE, value |-> 0]
Num(v) == [nan |-> FALSE, value |-> v]

RECURSIVE ParseDigits(_, _, _)
ParseDigits(text, value, seen) ==
  IF text = <<>> \/ ~IsDigit(Head(text))
    THEN IF seen THEN Num(value) ELSE NaN
    ELSE ParseDigits(Tail(text), 10 * value + DigitValue(Head(text)), TRUE)

parseInt(text) ==
  IF text # <<>> /\ Head(text) = "-"
    THEN LET p == ParseDigits(Tail(text), 0, FALSE) IN IF p.nan THEN NaN ELSE Num(-p.value)
  ELSE IF text # <<>> /\ Head(text) = "+" THEN ParseDigits(Tail(text), 0, FALSE)
  ELSE ParseDigits(text, 0, FALSE)

\* parseInt(e.target.value) || 0: NaN and 0 are falsy
OrZero(p) == IF p.nan \/ p.value = 0 THEN 0 ELSE p.value

\* a panel handler: setOutputs(newOutputs)
PanelStep(newOutputs, op) ==
  /\ mounted
  /\ outputs' = newOutputs
  /\ notif' = <<>>
  /\ lastEvent' = Event(op, 0, "none")
  /\ UNCHANGED <<mounted, uploadVars, globalSettings, now, downloads, genVars, elapsed>>

\* a panel operation is counted against the bound
CountEdit ==
  /\ nEdits < MaxEdits
  /\ nEdits' = nEdits + 1

\* the Add Output select: onValueChange={addOutput}
AddOutput ==
  /\ CountEdit
  /\ \E type \in AddTypes : PanelStep(addOutput(type), "addOutput")

\* the enabled checkbox, as SetEnabled
EditEnabled ==
  /\ CountEdit
  /\ \E i \in 1..Len(outputs) :
       PanelStep(updateOutput(outputs[i].id, "enabled", ~outputs[i].enabled),
                 "updateOutput")

\* the width input: updateOutput(output.id, 'width', parseInt(e.target.value) || 0)
EditWidth ==
  /\ CountEdit
  /\ \E i \in 1..Len(outputs), text \in InputTexts :
       PanelStep(updateOutput(outputs[i].id, "width", OrZero(parseInt(text))),
                 "updateOutput")

\* the height input: updateOutput(output.id, 'height', parseInt(e.target.value) || 0)
EditHeight ==
  /\ CountEdit
  /\ \E i \in 1..Len(outputs), text \in InputTexts :
       PanelStep(updateOutput(outputs[i].id, "height", OrZero(parseInt(text))),
                 "updateOutput")

\* a format checkbox: toggleFormat(output.id, format.id)
ToggleFormat ==
  /\ CountEdit
  /\ \E i \in 1..Len(outputs), k \in 1..Len(FORMATS) :
       PanelStep(toggleFormat(outputs[i].id, FORMATS[k]), "toggleFormat")

\* the Remove button, rendered when outputs.length > 1: removeOutput(output.id)
RemoveOutput ==
  /\ CountEdit
  /\ Len(outputs) > 1
  /\ \E i \in 1..Len(outputs) : PanelStep(removeOutput(outputs[i].id), "removeOutput")

\* the switches of the global settings
SETTINGS == {"auto_alt_text", "contrast_check", "brand_guidelines"}

\* a settings switch: setGlobalSettings({ ...globalSettings, [key]: checked })
SetGlobalSetting ==
  /\ CountEdit
  /\ mounted
  /\ \E key \in SETTINGS :
       globalSettings' = [globalSettings EXCEPT ![key] = ~globalSettings[key]]
  /\ notif' = <<>>
  /\ lastEvent' = Event("setGlobalSettings", 0, "none")
  /\ UNCHANGED <<mounted, uploadVars, outputs, now, downloads, genVars, elapsed>>

\* a millisecond passes
ClockTick ==
  /\ mounted
  /\ now < MaxClock
  /\ now' = now + 1
  /\ notif' = <<>>
  /\ lastEvent' = Event("clock", 0, "none")
  /\ UNCHANGED <<mounted, uploadVars, outputs, globalSettings, nEdits, downloads, genVars,
                 elapsed>>

\* ------------------------------------------------------------------ upload
\* mutant: the media type is not looked at
handleFileSelect_AnyType(file) ==
  /\ mounted
  /\ IF file = NoFile
       THEN /\ notif' = <<>>
            /\ lastEvent' = Event("select", 0, "none")
            /\ UNCHANGED uploadVars
       ELSE /\ nUploads' = nUploads + 1
            /\ isUploading' = TRUE
            /\ readers' = readers \cup {[n |-> nUploads + 1, file |-> file]}
            /\ uploads' = uploads \cup {[n |-> nUploads + 1, file |-> file]}
            /\ selected' = [selected EXCEPT !.file = file]
            /\ notif' = <<>>
            /\ lastEvent' = Event("select", 0, "none")
            /\ UNCHANGED <<jobId, uploadedImage, previewUrl>>
  /\ UNCHANGED <<mounted, outputs, globalSettings, panelVars, downloads, genVars,
                 elapsed>>

\* handleFileSelect(file), up to its await
handleFileSelect(file) ==
  /\ mounted
  /\ IF file = NoFile
       THEN /\ notif' = <<>>
            /\ lastEvent' = Event("select", 0, "none")
            /\ UNCHANGED uploadVars
       ELSE IF ~IsImage(file)
       THEN /\ notif' = <<ToastError("Please upload an image file (JPG, PNG, WEBP)")>>
            /\ lastEvent' = Event("select", 0, "InvalidFileType")
            /\ UNCHANGED uploadVars
       ELSE /\ nUploads' = nUploads + 1
            /\ isUploading' = TRUE
            /\ readers' = readers \cup {[n |-> nUploads + 1, file |-> file]}
            /\ uploads' = uploads \cup {[n |-> nUploads + 1, file |-> file]}
            /\ selected' = [selected EXCEPT !.file = file]
            /\ notif' = <<>>
            /\ lastEvent' = Event("select", 0, "none")
            /\ UNCHANGED <<jobId, uploadedImage, previewUrl>>
  /\ UNCHANGED <<mounted, outputs, globalSettings, panelVars, downloads, genVars,
                 elapsed>>

\* the file input's onChange / the drop zone's onDrop
SelectFile ==
  /\ nUploads < MaxUploads
  /\ \E file \in Files \cup {NoFile} : handleFileSelect(file)

\* The upload zone takes a file whether or not an upload is in flight. Only the
\* selections that start an upload count against the bound.
SessionSelect ==
  \E file \in Files \cup {NoFile} :
    /\ (file # NoFile /\ IsImage(file)) => nUploads < SessionUploads
    /\ handleFileSelect(file)

\* reader.onload = (e) => setPreviewUrl(e.target.result)
ReaderLoad ==
  /\ \E rd \in readers :
       /\ readers' = readers \ {rd}
       /\ previewUrl' = rd.file
  /\ notif' = <<>>
  /\ lastEvent' = Event("preview", 0, "none")
  /\ UNCHANGED <<mounted, jobId, uploadedImage, isUploading, uploads, nUploads, selected,
                 outputs, globalSettings, panelVars, downloads, genVars, elapsed>>

\* POST /api/upload answered with { job_id }: the rest of the try block, then finally
UploadOk ==
  /\ \E u \in uploads :
       /\ uploads' = uploads \ {u}
       /\ jobId' = u.n
       /\ uploadedImage' = u.file
  /\ isUploading' = FALSE
  /\ notif' = <<ToastSuccess("Image uploaded successfully")>>
  /\ lastEvent' = Event("upload", 0, "none")
  /\ UNCHANGED <<mounted, previewUrl, readers, nUploads, selected, outputs,
                 globalSettings, panelVars, downloads, genVars, elapsed>>

\* mutant: a failed upload ends the session
UploadFail_EndsSession ==
  /\ \E u \in uploads : uploads' = uploads \ {u}
  /\ selected' = [selected EXCEPT !.failed = TRUE]
  /\ isUploading' = FALSE
  /\ jobId' = NoJob
  /\ uploadedImage' = NoFile
  /\ \E d \in Details : notif' = <<ToastError(OrElse(d, "Failed to upload image"))>>
  /\ lastEvent' = Event("upload", 0, "UploadFailed")
  /\ UNCHANGED <<mounted, previewUrl, readers, nUploads, outputs, globalSettings,
                 panelVars, downloads, genVars, elapsed>>

\* POST /api/upload failed: the catch block, then finally
UploadFail ==
  /\ \E u \in uploads : uploads' = uploads \ {u}
  /\ selected' = [selected EXCEPT !.failed = TRUE]
  /\ isUploading' = FALSE
  /\ \E d \in Details : notif' = <<ToastError(OrElse(d, "Failed to upload image"))>>
  /\ lastEvent' = Event("upload", 0, "UploadFailed")
  /\ UNCHANGED <<mounted, jobId, uploadedImage, previewUrl, readers, nUploads, outputs,
                 globalSettings, panelVars, downloads, genVars, elapsed>>

\* -------------------------------------------------------------- generation
Statuses == {"pending", "completed", "failed", "queued"}

\* A job ends as completed or as failed, not both: once the backend has reported
\* one of them for run r, it does not report the other. A response that was
\* composed before the job ended may still say pending.
CanReport(r, st) ==
  st \in {"completed", "failed"} => runs[r].remote \in {"pending", st}

\* an asset of the batch the backend made for a job
Asset(i, job) ==
  IF i = 1
    THEN [id |-> i, job |-> job, output_type |-> "poster", language |-> "English",
          width |-> 1080, height |-> 1350, format |-> "png", data |-> "iVBORw0KGgo="]
    ELSE [id |-> i, job |-> job, output_type |-> "banner", language |-> "Spanish",
          width |-> 1920, height |-> 600, format |-> "jpeg", data |-> "/9j/4AAQSkZJRg=="]
AssetBatches(job) == {<<>>, <<Asset(1, job)>>, <<Asset(1, job), Asset(2, job)>>}

\* outputs.filter((o) => o.enabled)
IsEnabled(o) == o.enabled

\* mutant: the filter is lost
enabledOutputs_Unfiltered == outputs

enabledOutputs == SelectSeq(outputs, IsEnabled)

\* the wire shape of one output in the request
WireOutput(o) ==
  [type |-> o.type, language |-> o.language, width |-> o.width, height |-> o.height,
   formats |-> o.formats, generate_print |-> (o.generatePrint \/ FALSE)]

\* mutant: the request carries the settings the page started with
BuildRequest_InitialSettings ==
  [job_id |-> jobId,
   outputs |-> [i \in 1..Len(enabledOutputs) |-> WireOutput(enabledOutputs[i])],
   settings |-> InitialSettings]

\* const request = { job_id, outputs: enabledOutputs.map(...), settings }
BuildRequest ==
  [job_id |-> jobId,
   outputs |-> [i \in 1..Len(enabledOutputs) |-> WireOutput(enabledOutputs[i])],
   settings |-> globalSettings]

NoRequest == [job_id |-> NoJob, outputs |-> <<>>, settings |-> InitialSettings]

\* A run: one handleGenerate invocation that passed its checks. job, closureGen and
\* request are what its closure captured; post, interval and timeout are the
\* submission call and the two timers; statusInFlight and assetsInFlight count the
\* interval callbacks suspended at their awaits. The remaining fields record the
\* run's history: whether it has issued an asset fetch, whether it has made a terminal
\* classification (completed, failed, polling error, timeout), whether a terminal
\* transition has been recorded, whether every status so far was pending, and
\* whether the page was torn down while the run was polling. remote is the final
\* status the backend has reported for the run's job, "pending" while it has not.
\* asked is the job id in the URL of the run's latest status query or asset fetch.
EmptyRun ==
  [job |-> NoJob, closureGen |-> FALSE, request |-> NoRequest, asked |-> NoJob,
   post |-> "none", interval |-> "none", timeout |-> "none",
   statusInFlight |-> 0, assetsInFlight |-> 0,
   fetched |-> FALSE, classified |-> FALSE, terminal |-> FALSE,
   allPending |-> TRUE, tornDown |-> FALSE, remote |-> "pending"]

\* mutant: the job id is not checked
MissingJob_Never == FALSE

\* if (!jobId)
MissingJob == jobId = NoJob

\* if (enabledOutputs.length === 0)
NoneEnabled == Len(enabledOutputs) = 0

\* toast.error('Please upload an image first'); return
RejectNoUpload ==
  /\ notif' = <<ToastError("Please upload an image first")>>
  /\ lastEvent' = Event("generate", 0, "NoUpload")
  /\ UNCHANGED genVars

\* toast.error('Please enable at least one output type'); return
RejectNoOutputs ==
  /\ notif' = <<ToastError("Please enable at least one output type")>>
  /\ lastEvent' = Event("generate", 0, "NoOutputsSelected")
  /\ UNCHANGED genVars

\* setIsGenerating(true); setGeneratedAssets([]); build the request; axios.post(...)
Submit ==
  /\ nRuns < MaxRuns
  /\ nRuns' = nRuns + 1
  /\ isGenerating' = TRUE
  /\ generatedAssets' = <<>>
  /\ runs' = [runs EXCEPT ![nRuns + 1] =
                [EmptyRun EXCEPT !.job = jobId, !.closureGen = isGenerating,
                                 !.request = BuildRequest, !.post = "inflight"]]
  /\ notif' = <<>>
  /\ lastEvent' = Event("generate", nRuns + 1, "none")

\* handleGenerate, up to its first await
handleGenerate ==
  /\ mounted
  /\ IF MissingJob THEN RejectNoUpload
       ELSE IF NoneEnabled THEN RejectNoOutputs
       ELSE Submit
  /\ UNCHANGED <<mounted, uploadVars, outputs, globalSettings, panelVars, downloads,
                 elapsed>>

\* the Generate button's disabled attribute
enabledCount == Len(enabledOutputs)
hasUploadedImage == jobId # NoJob
GenerateDisabled == ~hasUploadedImage \/ enabledCount = 0 \/ isGenerating

\* a click on the Generate button
ClickGenerate == ~GenerateDisabled /\ handleGenerate

\* POST /api/generate accepted: toast, setInterval(..., 3000), setTimeout(..., 300000)
SubmitAccepted(r) ==
  /\ runs[r].post = "inflight"
  /\ runs' = [runs EXCEPT ![r] =
                [@ EXCEPT !.post = "accepted", !.interval = "active",
                          !.timeout = "pending"]]
  /\ notif' = <<ToastSuccess("Generation started! This may take a moment...")>>
  /\ lastEvent' = Event("accepted", r, "none")
  /\ UNCHANGED <<mounted, uploadVars, outputs, globalSettings, panelVars, downloads,
                 isGenerating, generatedAssets, nRuns, elapsed>>

\* mutant: the timers are armed although the submission failed
SubmitFailed_ArmsTimers(r) ==
  /\ runs[r].post = "inflight"
  /\ runs' = [runs EXCEPT ![r] =
                [@ EXCEPT !.post = "failed", !.terminal = TRUE, !.interval = "active",
                          !.timeout = "pending"]]
  /\ isGenerating' = FALSE
  /\ \E d \in Details : notif' = <<ToastError(OrElse(d, "Failed to generate assets"))>>
  /\ lastEvent' = Event("rejected", r, "SubmissionFailed")
  /\ UNCHANGED <<mounted, uploadVars, outputs, globalSettings, panelVars, downloads,
                 generatedAssets, nRuns, elapsed>>

\* POST /api/generate failed: the outer catch
SubmitFailed(r) ==
  /\ runs[r].post = "inflight"
  /\ runs' = [runs EXCEPT ![r] = [@ EXCEPT !.post = "failed", !.terminal = TRUE]]
  /\ isGenerating' = FALSE
  /\ \E d \in Details : notif' = <<ToastError(OrElse(d, "Failed to generate assets"))>>
  /\ lastEvent' = Event("rejected", r, "SubmissionFailed")
  /\ UNCHANGED <<mounted, uploadVars, outputs, globalSettings, panelVars, downloads,
                 generatedAssets, nRuns, elapsed>>

\* ----------------------------------------------------------------- polling
\* clearInterval(pollInterval)
clearInterval(run) == [run EXCEPT !.interval = "cleared"]

\* mutant: the callbacks read the job id the session has when they run
QueryJob_Session(r) == jobId

\* jobId in the interval callback: the constant of the render whose handleGenerate
\* set the interval
QueryJob(r) == runs[r].job

\* The interval callback starts: axios.get(`${API}/jobs/${jobId}`) is issued.
PollTickBody(r) ==
  /\ runs[r].interval = "active"
  /\ runs[r].statusInFlight < MaxInFlight
  /\ runs' = [runs EXCEPT ![r] =
                [@ EXCEPT !.statusInFlight = @ + 1, !.asked = QueryJob(r)]]
  /\ notif' = <<>>
  /\ lastEvent' = Event("tick", r, "none")
  /\ UNCHANGED <<mounted, uploadVars, outputs, globalSettings, panelVars, downloads,
                 isGenerating, generatedAssets, nRuns>>

\* status === 'completed': clearInterval, then axios.get(`${API}/assets/${jobId}`)
OnCompleted(r) ==
  /\ runs' = [runs EXCEPT ![r] =
                [clearInterval(@) EXCEPT !.statusInFlight = @ - 1,
                                         !.assetsInFlight = @ + 1,
                                         !.asked = QueryJob(r),
                                         !.fetched = TRUE,
                                         !.classified = TRUE,
                                         !.allPending = FALSE,
                                         !.remote = "completed"]]
  /\ notif' = <<>>
  /\ lastEvent' = Event("completed", r, "none")
  /\ UNCHANGED <<isGenerating, generatedAssets>>

\* mutant: the failed branch leaves the interval running
OnFailed_NoClear(r, err) ==
  /\ runs' = [runs EXCEPT ![r] =
                [@ EXCEPT !.statusInFlight = @ - 1, !.classified = TRUE,
                          !.terminal = TRUE, !.allPending = FALSE,
                          !.remote = "failed"]]
  /\ isGenerating' = FALSE
  /\ notif' = <<ToastError(OrElse(err, "Generation failed"))>>
  /\ lastEvent' = Event("failed", r, "RemoteJobFailed")
  /\ UNCHANGED generatedAssets

\* status === 'failed': clearInterval, setIsGenerating(false), toast.error
OnFailed(r, err) ==
  /\ runs' = [runs EXCEPT ![r] =
                [clearInterval(@) EXCEPT !.statusInFlight = @ - 1,
                                         !.classified = TRUE,
                                         !.terminal = TRUE,
                                         !.allPending = FALSE,
                                         !.remote = "failed"]]
  /\ isGenerating' = FALSE
  /\ notif' = <<ToastError(OrElse(err, "Generation failed"))>>
  /\ lastEvent' = Event("failed", r, "RemoteJobFailed")
  /\ UNCHANGED generatedAssets

\* any other status: the callback ends, the interval stays
OnOtherStatus(r, st) ==
  /\ runs' = [runs EXCEPT ![r] =
                [@ EXCEPT !.statusInFlight = @ - 1,
                          !.allPending = @ /\ st = "pending"]]
  /\ notif' = <<>>
  /\ lastEvent' = Event("pending", r, "none")
  /\ UNCHANGED <<isGenerating, generatedAssets>>

\* GET /api/jobs/{job_id} answered: the callback resumes after its first await
StatusResponse(r) ==
  /\ runs[r].statusInFlight > 0
  /\ \E st \in Statuses, err \in Details :
       /\ CanReport(r, st)
       /\ IF st = "completed" THEN OnCompleted(r)
          ELSE IF st = "failed" THEN OnFailed(r, err)
          ELSE OnOtherStatus(r, st)
  /\ UNCHANGED <<mounted, uploadVars, outputs, globalSettings, panelVars, downloads,
                 nRuns, elapsed>>

\* catch (error): clearInterval, setIsGenerating(false), console.error
OnPollError(run) ==
  [clearInterval(run) EXCEPT !.classified = TRUE, !.terminal = TRUE,
                             !.allPending = FALSE]

\* GET /api/jobs/{job_id} failed: the callback's catch
StatusError(r) ==
  /\ runs[r].statusInFlight > 0
  /\ runs' = [runs EXCEPT ![r] = [OnPollError(@) EXCEPT !.statusInFlight = @ - 1]]
  /\ isGenerating' = FALSE
  /\ notif' = <<>>
  /\ lastEvent' = Event("pollError", r, "PollingTransportError")
  /\ UNCHANGED <<mounted, uploadVars, outputs, globalSettings, panelVars, downloads,
                 generatedAssets, nRuns, elapsed>>

\* mutant: the batch is added to what the store holds
setGeneratedAssets_Append(assets) == generatedAssets \o assets

\* setGeneratedAssets(assetsResponse.data.assets): the store becomes the batch
setGeneratedAssets(assets) == assets

\* GET /api/assets/{job_id} answered: setGeneratedAssets, setIsGenerating(false), toast
AssetsResponse(r) ==
  /\ runs[r].assetsInFlight > 0
  /\ runs' = [runs EXCEPT ![r] =
                [@ EXCEPT !.assetsInFlight = @ - 1, !.terminal = TRUE]]
  /\ \E batch \in AssetBatches(runs[r].asked) :
       /\ generatedAssets' = setGeneratedAssets(batch)
       /\ notif' = <<[level |-> "success", msg |-> "Generated assets successfully!",
                      n |-> Len(batch)]>>
  /\ isGenerating' = FALSE
  /\ lastEvent' = Event("assets", r, "none")
  /\ UNCHANGED <<mounted, uploadVars, outputs, globalSettings, panelVars, downloads,
                 nRuns, elapsed>>

\* GET /api/assets/{job_id} failed: the callback's catch
AssetsError(r) ==
  /\ runs[r].assetsInFlight > 0
  /\ runs' = [runs EXCEPT ![r] = [OnPollError(@) EXCEPT !.assetsInFlight = @ - 1]]
  /\ isGenerating' = FALSE
  /\ notif' = <<>>
  /\ lastEvent' = Event("assetsError", r, "PollingTransportError")
  /\ UNCHANGED <<mounted, uploadVars, outputs, globalSettings, panelVars, downloads,
                 generatedAssets, nRuns, elapsed>>

\* The timeout callback: clearInterval; if (isGenerating) { setIsGenerating(false);
\* toast.error(...) }, where isGenerating is the value the closure captured.
TimeoutBody(r) ==
  /\ runs[r].timeout = "pending"
  /\ runs' = [runs EXCEPT ![r] =
                [clearInterval(@) EXCEPT !.timeout = "fired", !.classified = TRUE,
                                         !.terminal = TRUE]]
  /\ IF runs[r].closureGen
       THEN /\ isGenerating' = FALSE
            /\ notif' = <<ToastError("Generation timed out. Please try again.")>>
       ELSE /\ isGenerating' = isGenerating
            /\ notif' = <<>>
  /\ lastEvent' = Event("timeout", r,
                        IF runs[r].classified THEN "none" ELSE "TimedOut")
  /\ UNCHANGED <<mounted, uploadVars, outputs, globalSettings, panelVars, downloads,
                 generatedAssets, nRuns>>

\* The page leaves the screen. GeneratorPage registers no effect and no cleanup:
\* nothing but the component goes away.
Unmount ==
  /\ mounted
  /\ mounted' = FALSE
  /\ runs' = [r \in Runs |->
                [runs[r] EXCEPT !.tornDown = (runs[r].interval = "active")]]
  /\ notif' = <<>>
  /\ lastEvent' = Event("unmount", 0, "none")
  /\ UNCHANGED <<uploadVars, outputs, globalSettings, panelVars, downloads, isGenerating,
                 generatedAssets, nRuns, elapsed>>

\* --------------------------------------------------------------- downloads
\* downloadAsset(asset) of the preview grid: the link's download and href
downloadAsset(asset) ==
  [download |-> "asset_" \o asset.output_type \o "_" \o asset.language \o "_"
                  \o ToString(asset.width) \o "x" \o ToString(asset.height)
                  \o "." \o asset.format,
   href |-> "data:image/" \o asset.format \o ";base64," \o asset.data]

\* mutant: the file name of Download All leaves the language out
DownloadAllLink_NoLanguage(asset) ==
  [download |-> "asset_" \o asset.output_type \o "_"
                  \o ToString(asset.width) \o "x" \o ToString(asset.height)
                  \o "." \o asset.format,
   href |-> "data:image/" \o asset.format \o ";base64," \o asset.data]

\* the link a timer of handleDownloadAll builds and clicks
DownloadAllLink(asset) ==
  [download |-> "asset_" \o asset.output_type \o "_" \o asset.language \o "_"
                  \o ToString(asset.width) \o "x" \o ToString(asset.height)
                  \o "." \o asset.format,
   href |-> "data:image/" \o asset.format \o ";base64," \o asset.data]

\* downloads.t is the time in periods of STAGGER_MS; a call records the store and the
\* time at which it was made; a timer holds the asset its closure captured
NoDownloads == [calls |-> <<>>, timers |-> {}, log |-> <<>>, t |-> 0]

\* when a timer is due, in milliseconds
Due(tm) == downloads.calls[tm.call].at * STAGGER_MS + tm.delay

\* timers run in the order of their due times, and in the order they were set when
\* these are equal
Before(a, b) ==
  \/ Due(a) < Due(b)
  \/ Due(a) = Due(b) /\ a.call < b.call
  \/ Due(a) = Due(b) /\ a.call = b.call /\ a.index < b.index

\* the Download All button, rendered while the store holds assets:
\* generatedAssets.forEach((asset, index) => setTimeout(..., index * 100)); toast
handleDownloadAll ==
  /\ mounted
  /\ Len(generatedAssets) > 0
  /\ Len(downloads.calls) < MaxDownloads
  /\ downloads' =
       [downloads EXCEPT
          !.calls = Append(@, [assets |-> generatedAssets, at |-> downloads.t]),
          !.timers = @ \cup {[call |-> Len(downloads.calls) + 1, index |-> i - 1,
                              asset |-> generatedAssets[i],
                              delay |-> (i - 1) * STAGGER_MS] :
                             i \in 1..Len(generatedAssets)}]
  /\ notif' = <<ToastSuccess("Downloading all assets...")>>
  /\ lastEvent' = Event("downloadAll", 0, "none")
  /\ UNCHANGED <<mounted, uploadVars, outputs, globalSettings, panelVars, genVars,
                 elapsed>>

\* a timer of handleDownloadAll runs: the link is built, clicked and removed
SaveTimer ==
  /\ \E tm \in downloads.timers :
       /\ Due(tm) <= downloads.t * STAGGER_MS
       /\ \A other \in downloads.timers \ {tm} : Before(tm, other)
       /\ downloads' =
            [downloads EXCEPT
               !.timers = @ \ {tm},
               !.log = Append(@, [call |-> tm.call, index |-> tm.index,
                                  link |-> DownloadAllLink(tm.asset),
                                  at |-> downloads.t])]
  /\ notif' = <<>>
  /\ lastEvent' = Event("save", 0, "none")
  /\ UNCHANGED <<mounted, uploadVars, outputs, globalSettings, panelVars, genVars,
                 elapsed>>

\* STAGGER_MS pass while timers are pending, none of them due
DownloadWait ==
  /\ downloads.timers # {}
  /\ \A tm \in downloads.timers : Due(tm) > downloads.t * STAGGER_MS
  /\ downloads' = [downloads EXCEPT !.t = @ + 1]
  /\ notif' = <<>>
  /\ lastEvent' = Event("clock", 0, "none")
  /\ UNCHANGED <<mounted, uploadVars, outputs, globalSettings, panelVars, genVars,
                 elapsed>>

\* ------------------------------------------------- time not measured (Spec)
\* The interval callback runs any number of times before the timeout does.
PollTick(r) == PollTickBody(r) /\ UNCHANGED elapsed

Timeout(r) == TimeoutBody(r) /\ UNCHANGED elapsed

\* ----------------------------------------------------- time measured (Timed)
\* elapsed[r] counts the interval periods since run r armed its timers; the
\* interval was armed first, so at TIMEOUT_MS its callback runs before the timeout.
\* mutant: the interval goes on after TIMEOUT_MS
TimedPollTick_NoTimeout(r) ==
  /\ PollTickBody(r)
  /\ elapsed' = [elapsed EXCEPT ![r] = @ + 1]

TimedPollTick(r) ==
  /\ elapsed[r] < TicksPerRun
  /\ PollTickBody(r)
  /\ elapsed' = [elapsed EXCEPT ![r] = @ + 1]

\* the interval is cleared: nothing of run r happens until its timeout is due
Wait(r) ==
  /\ runs[r].timeout = "pending"
  /\ runs[r].interval = "cleared"
  /\ elapsed[r] < TicksPerRun
  /\ elapsed' = [elapsed EXCEPT ![r] = TicksPerRun]
  /\ notif' = <<>>
  /\ lastEvent' = Event("wait", r, "none")
  /\ UNCHANGED <<mounted, uploadVars, outputs, globalSettings, panelVars, downloads,
                 genVars>>

TimedTimeout(r) ==
  /\ elapsed[r] = TicksPerRun
  /\ TimeoutBody(r)
  /\ UNCHANGED elapsed

\* ---------------------------------------------------------- specifications
Init ==
  /\ mounted = TRUE
  /\ jobId = NoJob
  /\ uploadedImage = NoFile
  /\ previewUrl = NoFile
  /\ isUploading = FALSE
  /\ uploads = {}
  /\ readers = {}
  /\ nUploads = 0
  /\ selected = [file |-> NoFile, failed |-> FALSE]
  /\ outputs = InitialOutputs
  /\ globalSettings = InitialSettings
  /\ now = 0
  /\ nEdits = 0
  /\ isGenerating = FALSE
  /\ generatedAssets = <<>>
  /\ runs = [r \in Runs |-> EmptyRun]
  /\ nRuns = 0
  /\ elapsed = [r \in Runs |-> 0]
  /\ downloads = NoDownloads
  /\ notif = <<>>
  /\ lastEvent = Event("init", 0, "none")

\* the page once a.jpg has been uploaded and its preview read
InitUploaded ==
  /\ mounted = TRUE
  /\ jobId = 1
  /\ uploadedImage = "a.jpg"
  /\ previewUrl = "a.jpg"
  /\ isUploading = FALSE
  /\ uploads = {}
  /\ readers = {}
  /\ nUploads = 1
  /\ selected = [file |-> "a.jpg", failed |-> FALSE]
  /\ outputs = InitialOutputs
  /\ globalSettings = InitialSettings
  /\ now = 0
  /\ nEdits = 0
  /\ isGenerating = FALSE
  /\ generatedAssets = <<>>
  /\ runs = [r \in Runs |-> EmptyRun]
  /\ nRuns = 0
  /\ elapsed = [r \in Runs |-> 0]
  /\ downloads = NoDownloads
  /\ notif = <<ToastSuccess("Image uploaded successfully")>>
  /\ lastEvent = Event("upload", 0, "none")

\* the run of a first generate request that was accepted, polled once, answered
\* "completed", and whose asset fetch has been answered
CompletedRun ==
  [EmptyRun EXCEPT !.job = 1, !.asked = 1, !.request = [NoRequest EXCEPT
                                             !.job_id = 1,
                                             !.outputs = <<WireOutput(InitialOutputs[1])>>],
                   !.post = "accepted", !.interval = "cleared", !.timeout = "pending",
                   !.fetched = TRUE, !.classified = TRUE, !.terminal = TRUE,
                   !.allPending = FALSE, !.remote = "completed"]

\* the page once a.jpg has been uploaded and a first run has put its batch of one or
\* two assets into the store
InitGenerated ==
  /\ mounted = TRUE
  /\ jobId = 1
  /\ uploadedImage = "a.jpg"
  /\ previewUrl = "a.jpg"
  /\ isUploading = FALSE
  /\ uploads = {}
  /\ readers = {}
  /\ nUploads = 1
  /\ selected = [file |-> "a.jpg", failed |-> FALSE]
  /\ outputs = InitialOutputs
  /\ globalSettings = InitialSettings
  /\ now = 0
  /\ nEdits = 0
  /\ isGenerating = FALSE
  /\ generatedAssets \in AssetBatches(1) \ {<<>>}
  /\ runs = [r \in Runs |-> IF r = 1 THEN CompletedRun ELSE EmptyRun]
  /\ nRuns = 1
  /\ elapsed = [r \in Runs |-> IF r = 1 THEN 1 ELSE 0]
  /\ downloads = NoDownloads
  /\ notif = <<[level |-> "success", msg |-> "Generated assets successfully!",
                n |-> Len(generatedAssets)]>>
  /\ lastEvent = Event("assets", 1, "none")

Uploading ==
  \/ SelectFile
  \/ ReaderLoad
  \/ UploadOk
  \/ UploadFail

\* the continuations of a run's network calls
Responses ==
  \/ \E r \in Runs : SubmitAccepted(r)
  \/ \E r \in Runs : SubmitFailed(r)
  \/ \E r \in Runs : StatusResponse(r)
  \/ \E r \in Runs : StatusError(r)
  \/ \E r \in Runs : AssetsResponse(r)
  \/ \E r \in Runs : AssetsError(r)

Timers ==
  \/ \E r \in Runs : PollTick(r)
  \/ \E r \in Runs : Timeout(r)

\* The page as the user drives it, from its construction.
PageGenerate == nRuns < PageRuns /\ ClickGenerate

Next ==
  \/ Uploading
  \/ SetEnabled
  \/ PageGenerate
  \/ Responses
  \/ Timers
  \/ Unmount

Spec == Init /\ [][Next]_vars

\* The upload session by itself: file after file, uploads answered in any order.
NextUpload ==
  \/ SessionSelect
  \/ ReaderLoad
  \/ UploadOk
  \/ UploadFail

SpecUpload == Init /\ [][NextUpload]_vars

\* The panel on an uploaded image, up to the submission of a request.
NextRegistry ==
  \/ AddOutput
  \/ EditEnabled
  \/ EditWidth
  \/ EditHeight
  \/ ToggleFormat
  \/ RemoveOutput
  \/ ClockTick
  \/ ClickGenerate

SpecRegistry == InitUploaded /\ [][NextRegistry]_vars

\* The entries of the registry and their formats.
NextFormats ==
  \/ AddOutput
  \/ ToggleFormat
  \/ RemoveOutput
  \/ ClockTick

SpecFormats == Init /\ [][NextFormats]_vars

\* The panel before and after a request is submitted, up to the answer to the
\* submission call.
NextSnapshot ==
  \/ AddOutput
  \/ EditEnabled
  \/ SetGlobalSetting
  \/ PageGenerate
  \/ \E r \in Runs : SubmitAccepted(r)
  \/ \E r \in Runs : SubmitFailed(r)

SpecSnapshot == InitUploaded /\ [][NextSnapshot]_vars

\* Download All on a store that holds a batch, and a new generate request that
\* empties the store while saves are pending.
NextDownload ==
  \/ handleDownloadAll
  \/ SaveTimer
  \/ DownloadWait
  \/ ClickGenerate

SpecDownload == InitGenerated /\ [][NextDownload]_vars

\* The first run on an uploaded image while the upload zone takes further files.
StaleGenerate == nRuns = 0 /\ ClickGenerate

NextStale ==
  \/ SessionSelect
  \/ ReaderLoad
  \/ UploadOk
  \/ UploadFail
  \/ StaleGenerate
  \/ Responses
  \/ Timers

SpecStale == InitUploaded /\ [][NextStale]_vars

\* Generation after generation on an uploaded image.
NextRace ==
  \/ ClickGenerate
  \/ Responses
  \/ Timers

SpecRace == InitUploaded /\ [][NextRace]_vars

\* The controller called directly: onGenerate invoked whatever the button shows.
\* Only the calls that start a run count against the bound.
CallGenerate ==
  /\ (~MissingJob /\ ~NoneEnabled) => nRuns < CtlRuns
  /\ handleGenerate

NextCtl ==
  \/ SetEnabled
  \/ CallGenerate
  \/ Responses
  \/ Timers

\* before any upload, or once a.jpg has been uploaded
SpecCtl == (Init \/ InitUploaded) /\ [][NextCtl]_vars

\* One run after the other on an uploaded image, the timers measured against the clock.
RunOver(r) ==
  \/ runs[r].post \in {"none", "failed"}
  \/ /\ runs[r].timeout = "fired"
     /\ runs[r].statusInFlight = 0
     /\ runs[r].assetsInFlight = 0

TimedGenerate ==
  /\ nRuns < TimedRuns
  /\ \A r \in Runs : RunOver(r)
  /\ ClickGenerate

NextTimed ==
  \/ TimedGenerate
  \/ Responses
  \/ \E r \in Runs : TimedPollTick(r)
  \/ \E r \in Runs : Wait(r)
  \/ \E r \in Runs : TimedTimeout(r)

SpecTimed == InitUploaded /\ [][NextTimed]_vars

\* Timers fire and every network call returns or fails.
LiveSpec ==
  /\ SpecTimed
  /\ \A r \in Runs :
       /\ WF_vars(SubmitAccepted(r) \/ SubmitFailed(r))
       /\ WF_vars(StatusResponse(r) \/ StatusError(r))
       /\ WF_vars(AssetsResponse(r) \/ AssetsError(r))
       /\ WF_vars(TimedPollTick(r))
       /\ WF_vars(Wait(r))
       /\ WF_vars(TimedTimeout(r))

\* ------------------------------------------------------------------ claims
ErrorToasts == SelectSeq(notif, LAMBDA t : t.level = "error")

\* a step in which run r issues a status query
QueryIssued(r) == runs'[r].statusInFlight > runs[r].statusInFlight

\* a step that resumes an interval callback of run r with the answer to its status query
StatusProcessed(r) ==
  /\ lastEvent'.run = r
  /\ lastEvent'.op \in {"pending", "completed", "failed", "pollError"}
  /\ runs'[r].statusInFlight < runs[r].statusInFlight

\* a step that sends nothing to the backend
NoNetworkCall ==
  /\ uploads' = uploads
  /\ runs' = runs

\* C1: when the timeout of a run fires after an accepted submission whose status
\* responses were all "pending", isGenerating becomes false, the timeout
\* notification is raised, the interval is cleared and the run has fetched no assets.
C1_TimeoutTransitions ==
  \A r \in Runs :
    (lastEvent = Event("timeout", r, "TimedOut") /\ runs[r].allPending)
      => /\ ~isGenerating
         /\ notif = <<ToastError("Generation timed out. Please try again.")>>
         /\ runs[r].interval = "cleared"
         /\ ~runs[r].fetched

\* C2: after every accepted generate request the controller eventually is in a
\* state where a new request can be issued (isGenerating = false).
C2_EventuallyIdle ==
  \A r \in Runs : (runs[r].post = "accepted") ~> ~isGenerating

\* C3: at most one poll interval is active in every reachable state.
C3_OneLoop == Cardinality({r \in Runs : runs[r].interval = "active"}) <= 1

\* C4: a status response processed after the run's terminal transition was recorded
\* changes neither isGenerating nor the store, fetches no assets and raises no toast.
C4_NoLateProcessing ==
  [][\A r \in Runs :
       (runs[r].terminal /\ StatusProcessed(r))
         => /\ isGenerating' = isGenerating
            /\ generatedAssets' = generatedAssets
            /\ runs'[r].assetsInFlight = runs[r].assetsInFlight
            /\ notif' = <<>>]_vars

\* C5: once a run has classified a status as completed or failed, hit a polling
\* transport error or fired its timeout, it issues no new status query.
C5_NoQueryAfterClassification ==
  [][\A r \in Runs : runs[r].classified => ~QueryIssued(r)]_vars

\* C5 witness: a run has made a terminal classification while another of its status
\* queries was still in flight and its timeout was still to come.
C5_Witness ==
  \E r \in Runs :
    /\ runs[r].classified
    /\ runs[r].statusInFlight > 0
    /\ runs[r].timeout = "pending"

\* the latest run is Submitting or Polling
InFlight ==
  /\ nRuns > 0
  /\ \/ runs[nRuns].post = "inflight"
     \/ runs[nRuns].interval = "active"

\* C6: while the latest run is Submitting or Polling the Asset Result Store is empty.
C6_StoreEmptyInFlight == InFlight => generatedAssets = <<>>

\* a step of run r's polling loop: an interval callback, one of its continuations,
\* or the timeout callback
PollStep(r) ==
  /\ lastEvent'.run = r
  /\ lastEvent'.op \in {"tick", "pending", "completed", "failed", "pollError",
                         "assets", "assetsError", "timeout"}
  /\ runs'[r] # runs[r]

\* C7: once the page is torn down while a run is Polling, that run issues no further
\* status query and its loop updates no state.
C7_TeardownCancels ==
  [][\A r \in Runs :
       runs[r].tornDown
         => /\ ~QueryIssued(r)
            /\ PollStep(r) => /\ isGenerating' = isGenerating
                              /\ generatedAssets' = generatedAssets]_vars

\* C8: every error event raises exactly one error notification.
C8_OneToastPerError == lastEvent.ev # "none" => Len(ErrorToasts) = 1

\* C9: a generate request with no job id is rejected with NoUpload, whatever the
\* registry holds: one toast, isGenerating stays false, the store is unchanged and
\* nothing is sent.
C9_NoUploadRejected ==
  [][(jobId = NoJob /\ lastEvent'.op = "generate")
       => /\ lastEvent'.ev = "NoUpload"
          /\ notif' = <<ToastError("Please upload an image first")>>
          /\ ~isGenerating /\ ~isGenerating'
          /\ generatedAssets' = generatedAssets
          /\ NoNetworkCall]_vars

\* C9 witness: the request was rejected with NoUpload while no output was enabled.
C9_Witness ==
  /\ lastEvent = Event("generate", 0, "NoUpload")
  /\ jobId = NoJob
  /\ \A i \in 1..Len(outputs) : ~outputs[i].enabled

\* C10: a generate request with a job id but no enabled output is rejected with
\* NoOutputsSelected: one toast, isGenerating and the store unchanged, nothing sent.
C10_NoOutputsRejected ==
  [][(/\ jobId # NoJob
      /\ \A i \in 1..Len(outputs) : ~outputs[i].enabled
      /\ lastEvent'.op = "generate")
       => /\ lastEvent'.ev = "NoOutputsSelected"
          /\ notif' = <<ToastError("Please enable at least one output type")>>
          /\ isGenerating' = isGenerating
          /\ generatedAssets' = generatedAssets
          /\ NoNetworkCall]_vars

\* C10 witness: the request was rejected with NoOutputsSelected in the Idle state,
\* with the results of an earlier run in the store.
C10_Witness ==
  /\ lastEvent = Event("generate", 0, "NoOutputsSelected")
  /\ jobId # NoJob
  /\ ~isGenerating
  /\ generatedAssets # <<>>

\* a step in which run r issues an asset fetch
FetchIssued(r) == runs'[r].assetsInFlight > runs[r].assetsInFlight

\* a step that resumes run r's callback with the answer to its asset fetch
RunCompleted(r) == lastEvent' = Event("assets", r, "none") /\ runs'[r] # runs[r]

\* C11: a run issues an asset fetch only in the step that processes a "completed"
\* status of that run; when the fetch is answered the store becomes exactly the
\* returned batch (the batch of the run's job, with the length the toast reports);
\* no other step puts anything into the store.
C11_StoreIsFetchedBatch ==
  [][/\ \A r \in Runs :
          /\ FetchIssued(r) => /\ lastEvent' = Event("completed", r, "none")
                               /\ runs[r].statusInFlight > 0
                               /\ runs'[r].remote = "completed"
          /\ RunCompleted(r) => /\ runs[r].fetched
                                /\ generatedAssets' \in AssetBatches(runs[r].job)
                                /\ Len(generatedAssets') = notif'[1].n
     /\ (generatedAssets' # generatedAssets /\ generatedAssets' # <<>>)
          => \E r \in Runs : RunCompleted(r)]_vars

\* C11 witness: a fetch was answered with two assets, which the store now holds, while
\* another fetch of the same run is still in flight.
C11_Witness ==
  \E r \in Runs :
    /\ lastEvent = Event("assets", r, "none")
    /\ runs[r].assetsInFlight > 0
    /\ Len(generatedAssets) = 2

\* C12: when the submission call of a run fails, isGenerating becomes false and one
\* error toast (the detail, or the generic message) is raised; the run has no
\* interval, no timeout and no query in flight, nothing of it ever happens again, and
\* a submission is put in flight only by a generate request.
C12_SubmissionFailureEnds ==
  [][\A r \in Runs :
       /\ (runs[r].post = "inflight" /\ runs'[r].post = "failed")
            => /\ ~isGenerating'
               /\ notif' \in {<<ToastError(OrElse(d, "Failed to generate assets"))>> :
                                d \in Details}
               /\ runs'[r].interval = "none"
               /\ runs'[r].timeout = "none"
               /\ runs'[r].statusInFlight = 0
               /\ runs'[r].assetsInFlight = 0
       /\ runs[r].post = "failed" => runs'[r] = runs[r]
       /\ (runs[r].post # "inflight" /\ runs'[r].post = "inflight")
            => lastEvent' = Event("generate", r, "none")]_vars

\* C12 witness: a submission has failed and the user has issued a new generate request
\* afterwards, whose polling has begun.
C12_Witness ==
  \E r, q \in Runs :
    /\ r < q
    /\ runs[r].post = "failed"
    /\ runs[q].statusInFlight > 0

\* every upload and every preview read has ended
UploadsSettled == uploads = {} /\ readers = {}

\* C13: once every upload has settled, none having failed, the job id, the source
\* file and the preview are those of the most recently selected file.
C13_SessionIsLatestFile ==
  (UploadsSettled /\ nUploads > 0 /\ ~selected.failed)
    => /\ jobId = nUploads
       /\ uploadedImage = selected.file
       /\ previewUrl = selected.file

\* C14: a failed upload raises one error toast and leaves the job id and the source
\* file as they were; a job id assigned before is still one a generate request
\* accepts and carries.
C14_FailedUploadKeepsSession ==
  [][(lastEvent' = Event("upload", 0, "UploadFailed") /\ uploads' # uploads)
       => /\ notif' \in {<<ToastError(OrElse(d, "Failed to upload image"))>> : d \in Details}
          /\ jobId' = jobId
          /\ uploadedImage' = uploadedImage
          /\ hasUploadedImage => (hasUploadedImage' /\ BuildRequest' = BuildRequest)]_vars

\* C14 witness: an upload has failed in a session that had a job id.
C14_Witness ==
  /\ lastEvent = Event("upload", 0, "UploadFailed")
  /\ selected.failed
  /\ jobId # NoJob
  /\ uploadedImage # NoFile

\* C15: handing handleFileSelect a file whose media type is not image/... raises the
\* InvalidFileType toast, sends nothing, starts no preview read and leaves the job id,
\* the source file, the preview and the uploading flag as they were.
C15_NonImageRejected ==
  [][\A f \in Files :
       (FileType(f)[1] # "image" /\ handleFileSelect(f))
         => /\ lastEvent' = Event("select", 0, "InvalidFileType")
            /\ notif' = <<ToastError("Please upload an image file (JPG, PNG, WEBP)")>>
            /\ NoNetworkCall
            /\ readers' = readers
            /\ jobId' = jobId
            /\ uploadedImage' = uploadedImage
            /\ previewUrl' = previewUrl
            /\ isUploading' = isUploading]_vars

\* C15 witness: a file was rejected with InvalidFileType in a session that has a job id
\* while another upload is in flight.
C15_Witness ==
  /\ lastEvent = Event("select", 0, "InvalidFileType")
  /\ jobId # NoJob
  /\ isUploading
  /\ uploads # {}

\* the outputs of every request that has been submitted
SubmittedOutputs ==
  UNION {{runs[r].request.outputs[i] : i \in 1..Len(runs[r].request.outputs)} :
         r \in 1..nRuns}

\* C16: every OutputSpec of the registry has width > 0 and height > 0, and so has
\* every output of a submitted request.
C16_PositiveDimensions ==
  /\ \A i \in 1..Len(outputs) : outputs[i].width > 0 /\ outputs[i].height > 0
  /\ \A o \in SubmittedOutputs : o.width > 0 /\ o.height > 0

\* C17: every output of a submitted request has a non-empty formats list.
C17_FormatsNonEmpty == \A o \in SubmittedOutputs : o.formats # <<>>

\* C18: the registry holds at least one OutputSpec.
C18_RegistryNonEmpty == Len(outputs) >= 1

\* C19: the ids of the registry's OutputSpecs are pairwise distinct.
C19_IdsDistinct ==
  \A i, j \in 1..Len(outputs) : i # j => outputs[i].id # outputs[j].id

\* the formats of a list, as a set
FormatSet(formats) == {formats[i] : i \in 1..Len(formats)}

\* toggleFormat(outputId, format) applied twice to the registry
ToggledTwice(outputId, format) ==
  toggleFormatOn(toggleFormatOn(outputs, outputId, format), outputId, format)

\* C20: toggleFormat(id, format) applied twice leaves an OutputSpec with that id with
\* the same set of formats and the same other fields, and leaves every other
\* OutputSpec as it was.
C20_ToggleRoundTrip ==
  \A i \in 1..Len(outputs), k \in 1..Len(FORMATS) :
    LET twice == ToggledTwice(outputs[i].id, FORMATS[k]) IN
      /\ Len(twice) = Len(outputs)
      /\ \A j \in 1..Len(outputs) :
           IF outputs[j].id = outputs[i].id
             THEN /\ FormatSet(twice[j].formats) = FormatSet(outputs[j].formats)
                  /\ [twice[j] EXCEPT !.formats = <<>>]
                       = [outputs[j] EXCEPT !.formats = <<>>]
             ELSE twice[j] = outputs[j]

\* C20 witness: a registry of several entries that toggleFormat has produced, with an
\* entry that misses a format of its own and whose list two toggles put in another order.
C20_Witness ==
  /\ lastEvent.op = "toggleFormat"
  /\ Len(outputs) > 1
  /\ \E i \in 1..Len(outputs), k \in 1..Len(FORMATS) :
       /\ Len(outputs[i].formats) < 3
       /\ ToggledTwice(outputs[i].id, FORMATS[k]) # outputs

\* C24: every status query of a run takes one interval period of the run's
\* TIMEOUT_MS: it is issued at a multiple of POLL_INTERVAL_MS that is at most
\* TIMEOUT_MS after the timers were armed, one query per period, so a run issues at
\* most TIMEOUT_MS / POLL_INTERVAL_MS = 100 of them.
C24_AtMostHundredQueries ==
  [][\A r \in Runs :
       /\ QueryIssued(r)
            => /\ runs'[r].statusInFlight = runs[r].statusInFlight + 1
               /\ elapsed'[r] = elapsed[r] + 1
               /\ elapsed'[r] * POLL_INTERVAL_MS <= TIMEOUT_MS
       /\ elapsed'[r] >= elapsed[r]
       /\ elapsed'[r] <= 100]_vars

\* C24 witness: a run has just issued its 100th status query, 300000 ms after its
\* timers were armed, with every answer so far "pending".
C24_Witness ==
  \E r \in Runs :
    /\ lastEvent = Event("tick", r, "none")
    /\ elapsed[r] = 100
    /\ runs[r].allPending
    /\ runs[r].interval = "active"

\* C25: isUploading is true exactly while an upload request is in flight.
C25_UploadingFlag == isUploading <=> uploads # {}

\* the places of the registry's enabled OutputSpecs
EnabledAt == {i \in 1..Len(outputs) : outputs[i].enabled}

\* the place of the registry's i-th OutputSpec among the enabled ones
RankEnabled(i) == Cardinality({j \in EnabledAt : j <= i})

\* C21: a generate request that is accepted puts exactly one submission call in
\* flight, for a new run; its payload is the session's job id, the global settings
\* and, in registry order, the wire shape of exactly the enabled OutputSpecs, all as
\* they are at that step. The payload and the job id of a run never change
\* afterwards, and its submission call is not issued again.
C21_RequestIsSnapshot ==
  [][\A r \in Runs :
       /\ (runs[r].post = "none" /\ runs'[r].post # "none")
            => /\ runs'[r].post = "inflight"
               /\ nRuns' = nRuns + 1 /\ r = nRuns'
               /\ \A q \in Runs \ {r} : runs'[q] = runs[q]
               /\ runs'[r].job = jobId
               /\ runs'[r].request.job_id = jobId
               /\ runs'[r].request.settings = globalSettings
               /\ Len(runs'[r].request.outputs) = Cardinality(EnabledAt)
               /\ \A i \in EnabledAt :
                    runs'[r].request.outputs[RankEnabled(i)]
                      = [type |-> outputs[i].type, language |-> outputs[i].language,
                         width |-> outputs[i].width, height |-> outputs[i].height,
                         formats |-> outputs[i].formats,
                         generate_print |-> outputs[i].generatePrint]
       /\ runs[r].post # "none"
            => /\ runs'[r].request = runs[r].request
               /\ runs'[r].job = runs[r].job
               /\ runs'[r].post = "inflight" => runs[r].post = "inflight"]_vars

\* C21 witness: a submission is in flight whose request holds the one enabled output
\* of a registry of two, with settings that are not the initial ones, and the
\* settings have been edited since.
C21_Witness ==
  \E r \in Runs :
    /\ runs[r].post = "inflight"
    /\ Len(runs[r].request.outputs) = 1
    /\ runs[r].request.outputs[1].type = "banner"
    /\ runs[r].request.settings # InitialSettings
    /\ runs[r].request.settings # globalSettings
    /\ Len(outputs) = 2

\* the timers of call c that are pending for the asset at a place of its store
TimersFor(c, index) == {tm \in downloads.timers : tm.call = c /\ tm.index = index}

\* the places in the log of the saves call c has made for the asset at a place
SavesFor(c, index) ==
  {k \in 1..Len(downloads.log) :
     downloads.log[k].call = c /\ downloads.log[k].index = index}

\* C22: for every call of handleDownloadAll and every asset the store held at the
\* call, there is exactly one save, pending or made; the i-th (from 0) is set to
\* i * 100 ms after the call and is made then, with the link downloadAsset builds
\* for that asset; the saves of a call are made in the order of the store; nothing
\* else is saved.
C22_SaveAllStaggered ==
  /\ \A c \in 1..Len(downloads.calls) :
       LET call == downloads.calls[c] IN
         \A i \in 1..Len(call.assets) :
           /\ Cardinality(TimersFor(c, i - 1)) + Cardinality(SavesFor(c, i - 1)) = 1
           /\ \A tm \in TimersFor(c, i - 1) :
                tm.delay = (i - 1) * 100 /\ tm.asset = call.assets[i]
           /\ \A k \in SavesFor(c, i - 1) :
                /\ downloads.log[k].link = downloadAsset(call.assets[i])
                /\ downloads.log[k].at * STAGGER_MS = call.at * STAGGER_MS + (i - 1) * 100
  /\ \A tm \in downloads.timers :
       tm.call \in 1..Len(downloads.calls)
         /\ tm.index < Len(downloads.calls[tm.call].assets)
  /\ \A k \in 1..Len(downloads.log) :
       /\ downloads.log[k].call \in 1..Len(downloads.calls)
       /\ downloads.log[k].index < Len(downloads.calls[downloads.log[k].call].assets)
       /\ \A l \in 1..Len(downloads.log) :
            (k < l /\ downloads.log[k].call = downloads.log[l].call)
              => downloads.log[k].index < downloads.log[l].index

\* C22 witness: both saves of a call on a store of two assets have been made, the
\* store having been emptied by a new generate request in between.
C22_Witness ==
  \E c \in 1..Len(downloads.calls) :
    /\ Len(downloads.calls[c].assets) = 2
    /\ SavesFor(c, 0) # {} /\ SavesFor(c, 1) # {}
    /\ generatedAssets = <<>>
    /\ lastEvent = Event("save", 0, "none")

\* a step that resumes run r's callback with the answer to its asset fetch
AssetsStored(r) ==
  /\ lastEvent' = Event("assets", r, "none")
  /\ runs'[r].assetsInFlight < runs[r].assetsInFlight

\* C23: every status query and every asset fetch of a run asks for the job id of the
\* run's request, whatever job id the session has by then, and the batch the run
\* stores is that job's.
C23_RunKeepsItsJobId ==
  [][\A r \in Runs :
       /\ QueryIssued(r) => runs'[r].asked = runs[r].request.job_id
       /\ FetchIssued(r) => runs'[r].asked = runs[r].request.job_id
       /\ AssetsStored(r) =>
            \A i \in 1..Len(generatedAssets') :
              generatedAssets'[i].job = runs[r].request.job_id
       /\ runs[r].post # "none" => runs'[r].request.job_id = runs[r].request.job_id]_vars

\* C23 witness: an upload was answered during the run, and the store now holds the
\* batch of the job id the run was submitted with, not of the session's.
C23_Witness ==
  \E r \in Runs :
    /\ lastEvent = Event("assets", r, "none")
    /\ generatedAssets # <<>>
    /\ runs[r].asked = runs[r].request.job_id
    /\ \A i \in 1..Len(generatedAssets) : generatedAssets[i].job = runs[r].asked
    /\ jobId # runs[r].asked

====
